---------------------------- MODULE Spec2Model ----------------------------
(***************************************************************************)
(* Model of nba/slog-detector.py: the schedule fetcher                     *)
(* (fetch_games_for_dates), the team extraction                            *)
(* (get_teams_playing_on_date), the fatigue classifier                     *)
(* (_get_fatigue_status) and the analyze command that wires them together. *)
(*                                                                         *)
(* Three specifications share the variables:                               *)
(*   Spec         one run of the script (__main__ / analyze command)       *)
(*   SpecFatigue  _get_fatigue_status called on arbitrary inputs           *)
(*   SpecTeams    get_teams_playing_on_date called on arbitrary inputs     *)
(***************************************************************************)
EXTENDS Integers, Sequences, FiniteSets, TLC

VARIABLES
    pc,                          \* position of the run / of the call
    env_key,                     \* os.getenv(API_KEY_ENV_VAR)
    BALLDONTLIE_API_KEY,         \* the module global (line 25, line 259)
    date_str,                    \* the --date option
    target_date,                 \* parsed date, a day ordinal (0: not parsed)
    dates_to_fetch,              \* list handed to fetch_games_for_dates
    api_requests,                \* log of api.nba.games.list(dates=...) calls
    games_data,                  \* what the provider did on the request
    games_by_date,               \* value returned by fetch_games_for_dates
    teams_playing_yesterday,
    teams_playing_two_days_ago,
    simplified_results,          \* the report lines built by the loop
    status_calls,                \* number of _get_fatigue_status invocations
    console,                     \* what the command printed, in order
    table_rows,                  \* rows of the rendered table
    exit_code,                   \* -1 while running
    team_abbr,                   \* SpecFatigue: argument
    status,                      \* SpecFatigue: result
    games,                       \* SpecTeams: argument
    teams                        \* SpecTeams: result

vars == <<pc, env_key, BALLDONTLIE_API_KEY, date_str, target_date,
          dates_to_fetch, api_requests, games_data, games_by_date,
          teams_playing_yesterday, teams_playing_two_days_ago,
          simplified_results, status_calls, console, table_rows, exit_code,
          team_abbr, status, games, teams>>

runVars == <<env_key, BALLDONTLIE_API_KEY, date_str, target_date,
             dates_to_fetch, api_requests, games_data, games_by_date,
             simplified_results, status_calls, console, table_rows,
             exit_code>>

-----------------------------------------------------------------------------
(* Bounds and input universes *)

\* longest provider response / longest game list handed to a pure function
MaxGames == 3

\* Python's None, kept a string so that it compares with str values
PyNone == "<None>"

\* Python truthiness of an Optional[str]
Truthy(v) == v # PyNone /\ v # ""

\* the part of the calendar the model covers; a date is its index (ordinal)
Calendar == <<"2024-11-29", "2024-11-30", "2024-12-01", "2024-12-02">>

Days == DOMAIN Calendar

Range(s) == {s[i] : i \in DOMAIN s}

\* values of the environment variable: unset, empty, set
EnvKeys == {PyNone, "", "secret"}

\* values of --date: padded, unpadded (strptime accepts both), malformed
DateStrings == {"2024-12-01", "2024-12-02", "2024-12-1", "12/01/2024", "today"}

\* team abbreviations of provider records; "" is a missing abbreviation
Teams == {"BOS", "MIA", "DEN"}

\* time-of-day suffixes of a provider timestamp ("" : date only)
TimeSuffixes == {"", "T19:30:00Z"}

\* provider records: an ISO date and a suffix, or a text that is no ISO date
GoodStamps == {<<Calendar[d], s>> : d \in Days, s \in TimeSuffixes}

BadStamps == {<<"TBD", "">>}

\* (home, visitor) of the complete records
Matchups == {<<"BOS", "MIA">>, <<"DEN", "BOS">>}

\* records the provider can return: complete games on any day at any time,
\* games lacking the home or the visitor abbreviation, and a record whose
\* timestamp does not parse
ProviderRecords ==
    {[date |-> ts, home_team |-> m[1], visitor_team |-> m[2]] :
        ts \in GoodStamps, m \in Matchups}
    \cup {[date |-> <<Calendar[d], "">>, home_team |-> m[1], visitor_team |-> m[2]] :
        d \in Days, m \in {<<"", "MIA">>, <<"BOS", "">>}}
    \cup {[date |-> ts, home_team |-> "BOS", visitor_team |-> "MIA"] :
        ts \in BadStamps}

SeqsUpTo(S, n) == UNION {[1..k -> S] : k \in 0..n}

\* what api.nba.games.list does: raises, or answers with a list of records
ProviderOutcomes ==
    {[raised |-> TRUE, data |-> <<>>]}
    \cup {[raised |-> FALSE, data |-> r] : r \in SeqsUpTo(ProviderRecords, MaxGames)}


-----------------------------------------------------------------------------
(* Pure helpers of the standard library, modelled by what they do *)

\* datetime.strptime(s, '%Y-%m-%d').date(): the day ordinal, or ValueError.
\* %m and %d accept one-digit fields, so "2024-12-1" parses as well.
strptime(s) ==
    IF s = "2024-12-1" THEN [ok |-> TRUE, date |-> 3]
    ELSE IF \E d \in Days : Calendar[d] = s
         THEN [ok |-> TRUE, date |-> CHOOSE d \in Days : Calendar[d] = s]
         ELSE [ok |-> FALSE, date |-> 0]

\* date.strftime('%Y-%m-%d'): always the padded form
strftime(d) == Calendar[d]

\* datetime.fromisoformat(ts.replace('Z', '+00:00')) succeeds
fromisoformat_ok(ts) == \E d \in Days : Calendar[d] = ts[1]

\* datetime.fromisoformat(...).date(): the time of day is dropped
fromisoformat_date(ts) == CHOOSE d \in Days : Calendar[d] = ts[1]

\* dict.get(key, default)
Get(mapping, key, default) ==
    IF key \in DOMAIN mapping THEN mapping[key] ELSE default

-----------------------------------------------------------------------------
(* _get_fatigue_status, lines 100-115 *)

\* mutant: 3/3 as soon as the team played on either of the two days
get_fatigue_status_either(t, playing_yesterday, playing_two_days_ago) ==
    LET is_playing_yesterday == t \in playing_yesterday
        is_playing_two_days_ago == t \in playing_two_days_ago
        is_3in3 == is_playing_yesterday \/ is_playing_two_days_ago
        is_b2b == is_playing_yesterday
    IN  IF is_3in3 THEN "3/3" ELSE IF is_b2b THEN "B2B" ELSE "Rested"

\* mutant: B2B decided on the game of two days ago
get_fatigue_status_b2b_two_days(t, playing_yesterday, playing_two_days_ago) ==
    LET is_playing_yesterday == t \in playing_yesterday
        is_playing_two_days_ago == t \in playing_two_days_ago
        is_3in3 == is_playing_yesterday /\ is_playing_two_days_ago
        is_b2b == is_playing_two_days_ago
    IN  IF is_3in3 THEN "3/3" ELSE IF is_b2b THEN "B2B" ELSE "Rested"

\* mutant: the B2B branch lost, a team that played only yesterday is Rested
get_fatigue_status_no_b2b(t, playing_yesterday, playing_two_days_ago) ==
    LET is_playing_yesterday == t \in playing_yesterday
        is_playing_two_days_ago == t \in playing_two_days_ago
        is_3in3 == is_playing_yesterday /\ is_playing_two_days_ago
    IN  IF is_3in3 THEN "3/3" ELSE "Rested"

_get_fatigue_status(t, playing_yesterday, playing_two_days_ago) ==
    LET is_playing_yesterday == t \in playing_yesterday
        is_playing_two_days_ago == t \in playing_two_days_ago
        is_3in3 == is_playing_yesterday /\ is_playing_two_days_ago
        is_b2b == is_playing_yesterday
    IN  IF is_3in3 THEN "3/3" ELSE IF is_b2b THEN "B2B" ELSE "Rested"

\* _get_fatigue_rich_string, lines 117-124
_get_fatigue_rich_string(st) ==
    IF st = "3/3" THEN "red"
    ELSE IF st = "B2B" THEN "yellow"
    ELSE "green"

-----------------------------------------------------------------------------
(* get_teams_playing_on_date, lines 84-90 *)

RECURSIVE TeamsLoop(_, _, _)
\* the for loop of lines 87-89, from game i on
TeamsLoop(gs, i, acc) ==
    IF i > Len(gs) THEN acc
    ELSE TeamsLoop(gs, i + 1, (acc \cup {gs[i].home_team}) \cup {gs[i].visitor_team})

RECURSIVE TeamsLoopHomeOnly(_, _, _)
TeamsLoopHomeOnly(gs, i, acc) ==
    IF i > Len(gs) THEN acc
    ELSE TeamsLoopHomeOnly(gs, i + 1, acc \cup {gs[i].home_team})

\* mutant: the visitor is never added
get_teams_home_only(gs) == TeamsLoopHomeOnly(gs, 1, {})

get_teams_playing_on_date(gs) == TeamsLoop(gs, 1, {})

-----------------------------------------------------------------------------
(* fetch_games_for_dates, lines 31-81 *)

\* mutant: a date that was not requested gets a key of its own (setdefault)
ProcessGameAnyDate(acc, game) ==
    IF ~fromisoformat_ok(game.date)
    THEN [acc EXCEPT !.raised = TRUE]
    ELSE LET game_date_str == strftime(fromisoformat_date(game.date))
             entry == [home_team |-> game.home_team,
                       visitor_team |-> game.visitor_team]
             old == Get(acc.games_by_date, game_date_str, <<>>)
         IN  IF Truthy(game.home_team) /\ Truthy(game.visitor_team)
             THEN [acc EXCEPT !.games_by_date =
                      [d \in DOMAIN @ \cup {game_date_str} |->
                          IF d = game_date_str THEN Append(old, entry) ELSE @[d]]]
             ELSE acc

\* mutant: the check of the two abbreviations (line 64) is lost
ProcessGameKeepIncomplete(acc, game) ==
    IF ~fromisoformat_ok(game.date)
    THEN [acc EXCEPT !.raised = TRUE]
    ELSE LET game_date_str == strftime(fromisoformat_date(game.date))
         IN  IF game_date_str \in DOMAIN acc.games_by_date
             THEN [acc EXCEPT !.games_by_date[game_date_str] =
                       Append(@, [home_team |-> game.home_team,
                                  visitor_team |-> game.visitor_team])]
             ELSE acc

\* one iteration of the loop of lines 56-68 on acc = [raised, games_by_date]
ProcessGame(acc, game) ==
    IF ~fromisoformat_ok(game.date)
    THEN [acc EXCEPT !.raised = TRUE]
    ELSE LET game_date_str == strftime(fromisoformat_date(game.date))
         IN  IF game_date_str \in DOMAIN acc.games_by_date
             THEN LET home_abbr == game.home_team
                      visitor_abbr == game.visitor_team
                  IN  IF Truthy(home_abbr) /\ Truthy(visitor_abbr)
                      THEN [acc EXCEPT !.games_by_date[game_date_str] =
                                Append(@, [home_team |-> home_abbr,
                                           visitor_team |-> visitor_abbr])]
                      ELSE acc
             ELSE acc

RECURSIVE FetchLoop(_, _, _)
\* the for loop of line 56 from record i on; an exception ends it
FetchLoop(data, i, acc) ==
    IF acc.raised \/ i > Len(data) THEN acc
    ELSE FetchLoop(data, i + 1, ProcessGame(acc, data[i]))

\* the try block, lines 49-74: [raised, games_by_date]
FetchTry(dates, outcome) ==
    LET init == [raised |-> FALSE,
                 games_by_date |-> [d \in Range(dates) |-> <<>>]]
    IN  IF outcome.raised THEN [init EXCEPT !.raised = TRUE]
        ELSE FetchLoop(outcome.data, 1, init)

\* mutant: the handler returns the mapping built so far instead of {}
fetch_games_return_partial(dates, outcome) ==
    [propagated |-> FALSE, value |-> FetchTry(dates, outcome).games_by_date]

\* mutant: no handler, the exception leaves the function
fetch_games_no_handler(dates, outcome) ==
    LET r == FetchTry(dates, outcome)
    IN  IF r.raised THEN [propagated |-> TRUE, value |-> <<>>]
        ELSE [propagated |-> FALSE, value |-> r.games_by_date]

\* the whole function: the value returned, and whether an exception left it
fetch_games_for_dates(dates, outcome) ==
    LET r == FetchTry(dates, outcome)
    IN  IF r.raised THEN [propagated |-> FALSE, value |-> <<>>]
        ELSE [propagated |-> FALSE, value |-> r.games_by_date]

-----------------------------------------------------------------------------
(* The run of the script *)

\* values the variables of the pure-function specifications keep in a run
UnitIdle ==
    /\ team_abbr = ""
    /\ status = ""
    /\ games = <<>>
    /\ teams = {}

\* values the variables of a run keep in the pure-function specifications
RunIdle ==
    /\ env_key = PyNone
    /\ BALLDONTLIE_API_KEY = PyNone
    /\ date_str = ""
    /\ target_date = 0
    /\ dates_to_fetch = <<>>
    /\ api_requests = <<>>
    /\ games_data = [raised |-> FALSE, data |-> <<>>]
    /\ games_by_date = <<>>
    /\ simplified_results = <<>>
    /\ status_calls = 0
    /\ console = <<>>
    /\ table_rows = <<>>
    /\ exit_code = -1

\* The script starts at its __main__ block with any environment, or the
\* command is invoked on the imported module, whose global is still None
\* (line 25).
Init ==
    /\ pc \in {"main", "analyze"}
    /\ env_key \in (IF pc = "main" THEN EnvKeys ELSE {PyNone})
    /\ BALLDONTLIE_API_KEY = PyNone
    /\ date_str \in DateStrings
    /\ target_date = 0
    /\ dates_to_fetch = <<>>
    /\ api_requests = <<>>
    /\ games_data = [raised |-> FALSE, data |-> <<>>]
    /\ games_by_date = <<>>
    /\ teams_playing_yesterday = {}
    /\ teams_playing_two_days_ago = {}
    /\ simplified_results = <<>>
    /\ status_calls = 0
    /\ console = <<>>
    /\ table_rows = <<>>
    /\ exit_code = -1
    /\ UnitIdle

\* __main__, lines 254-269
Main ==
    /\ pc = "main"
    /\ BALLDONTLIE_API_KEY' = env_key
    /\ IF ~Truthy(env_key)
       THEN /\ console' = Append(console, "api_key_missing")
            /\ exit_code' = 1
            /\ pc' = "exit"
       ELSE /\ pc' = "analyze"
            /\ UNCHANGED <<console, exit_code>>
    /\ UNCHANGED <<env_key, date_str, target_date, dates_to_fetch,
                   api_requests, games_data, games_by_date,
                   teams_playing_yesterday, teams_playing_two_days_ago,
                   simplified_results, status_calls, table_rows,
                   team_abbr, status, games, teams>>

\* analyze_schedule_command, lines 142-147: the credential check
AnalyzeCheckKey ==
    /\ pc = "analyze"
    /\ IF ~Truthy(BALLDONTLIE_API_KEY)
       THEN /\ console' = Append(console, "api_key_missing")
            /\ exit_code' = 1
            /\ pc' = "exit"
       ELSE /\ pc' = "parse"
            /\ UNCHANGED <<console, exit_code>>
    /\ UNCHANGED <<env_key, BALLDONTLIE_API_KEY, date_str, target_date,
                   dates_to_fetch, api_requests, games_data, games_by_date,
                   teams_playing_yesterday, teams_playing_two_days_ago,
                   simplified_results, status_calls, table_rows,
                   team_abbr, status, games, teams>>

\* analyze_schedule_command, lines 149-161: the date and the window
AnalyzeParseDate ==
    /\ pc = "parse"
    /\ LET parsed == strptime(date_str)
       IN  IF ~parsed.ok
           THEN /\ console' = Append(console, "invalid_date_format")
                /\ exit_code' = 1
                /\ pc' = "exit"
                /\ UNCHANGED <<target_date, dates_to_fetch>>
           ELSE /\ target_date' = parsed.date
                /\ dates_to_fetch' = <<strftime(parsed.date),
                                       strftime(parsed.date - 1),
                                       strftime(parsed.date - 2)>>
                /\ console' = Append(console, "rule")
                /\ pc' = "fetch"
                /\ UNCHANGED exit_code
    /\ UNCHANGED <<env_key, BALLDONTLIE_API_KEY, date_str,
                   api_requests, games_data, games_by_date,
                   teams_playing_yesterday, teams_playing_two_days_ago,
                   simplified_results, status_calls, table_rows,
                   team_abbr, status, games, teams>>

\* mutant: one request per date instead of one batched request
AnalyzeFetchPerDate ==
    /\ pc = "fetch"
    /\ \E outcome \in ProviderOutcomes :
          LET r == fetch_games_for_dates(dates_to_fetch, outcome)
          IN  /\ api_requests' = api_requests
                     \o [i \in 1..Len(dates_to_fetch) |-> <<dates_to_fetch[i]>>]
              /\ games_data' = outcome
              /\ games_by_date' = r.value
              /\ pc' = IF r.propagated THEN "crashed" ELSE "report"
    /\ UNCHANGED <<env_key, BALLDONTLIE_API_KEY, date_str, target_date,
                   dates_to_fetch, teams_playing_yesterday,
                   teams_playing_two_days_ago, simplified_results,
                   status_calls, console, table_rows, exit_code,
                   team_abbr, status, games, teams>>

\* analyze_schedule_command, line 163: the call of fetch_games_for_dates,
\* which sends the one request of line 51 and gets the provider's outcome
AnalyzeFetch ==
    /\ pc = "fetch"
    /\ \E outcome \in ProviderOutcomes :
          LET r == fetch_games_for_dates(dates_to_fetch, outcome)
          IN  /\ api_requests' = Append(api_requests, dates_to_fetch)
              /\ games_data' = outcome
              /\ games_by_date' = r.value
              /\ pc' = IF r.propagated THEN "crashed" ELSE "report"
    /\ UNCHANGED <<env_key, BALLDONTLIE_API_KEY, date_str, target_date,
                   dates_to_fetch, teams_playing_yesterday,
                   teams_playing_two_days_ago, simplified_results,
                   status_calls, console, table_rows, exit_code,
                   team_abbr, status, games, teams>>

RECURSIVE AnalyzeLoop(_, _, _, _, _)
\* the for loop of lines 182-197 from game i on; acc = [results, calls]
AnalyzeLoop(games_today, i, yesterday, two_days_ago, acc) ==
    IF i > Len(games_today) THEN acc
    ELSE LET game == games_today[i]
             home_team_abbr == game.home_team
             visitor_team_abbr == game.visitor_team
             home_status == _get_fatigue_status(home_team_abbr, yesterday, two_days_ago)
             home_emoji == _get_fatigue_rich_string(home_status)
             visitor_status == _get_fatigue_status(visitor_team_abbr, yesterday, two_days_ago)
             visitor_emoji == _get_fatigue_rich_string(visitor_status)
             game_line == <<visitor_emoji, visitor_team_abbr, "at",
                            home_team_abbr, home_emoji>>
         IN  AnalyzeLoop(games_today, i + 1, yesterday, two_days_ago,
                         [results |-> Append(acc.results, game_line),
                          calls |-> acc.calls + 2])

\* mutant: the early return of lines 168-170 is lost
ReportNoShortCircuit(snapshot, target) ==
    LET games_today == Get(snapshot, strftime(target), <<>>)
        yesterday == get_teams_playing_on_date(Get(snapshot, strftime(target - 1), <<>>))
        two_days_ago == get_teams_playing_on_date(Get(snapshot, strftime(target - 2), <<>>))
        loop == AnalyzeLoop(games_today, 1, yesterday, two_days_ago,
                            [results |-> <<>>, calls |-> 0])
    IN  IF loop.results = <<>>
        THEN [yesterday |-> yesterday, two_days_ago |-> two_days_ago,
              results |-> loop.results, calls |-> loop.calls,
              printed |-> <<"no_games_analyzed">>, rows |-> <<>>]
        ELSE [yesterday |-> yesterday, two_days_ago |-> two_days_ago,
              results |-> loop.results, calls |-> loop.calls,
              printed |-> <<"key", "table">>, rows |-> loop.results]

\* mutant: the two prior days are taken the wrong way round
ReportSwappedDays(snapshot, target) ==
    LET games_today == Get(snapshot, strftime(target), <<>>)
        yesterday == get_teams_playing_on_date(Get(snapshot, strftime(target - 2), <<>>))
        two_days_ago == get_teams_playing_on_date(Get(snapshot, strftime(target - 1), <<>>))
        loop == AnalyzeLoop(games_today, 1, yesterday, two_days_ago,
                            [results |-> <<>>, calls |-> 0])
    IN  IF games_today = <<>>
        THEN [yesterday |-> {}, two_days_ago |-> {}, results |-> <<>>,
              calls |-> 0, printed |-> <<"no_games_found">>, rows |-> <<>>]
        ELSE [yesterday |-> yesterday, two_days_ago |-> two_days_ago,
              results |-> loop.results, calls |-> loop.calls,
              printed |-> <<"key", "table">>, rows |-> loop.results]

\* what lines 166-215 compute from the snapshot:
\* [yesterday, two_days_ago, results, calls, printed, rows]
Report(snapshot, target) ==
    LET target_date_str == strftime(target)
        date_yesterday_str == strftime(target - 1)
        date_two_days_ago_str == strftime(target - 2)
        games_today == Get(snapshot, target_date_str, <<>>)
        games_yesterday == Get(snapshot, date_yesterday_str, <<>>)
        games_two_days_ago == Get(snapshot, date_two_days_ago_str, <<>>)
        yesterday == get_teams_playing_on_date(games_yesterday)
        two_days_ago == get_teams_playing_on_date(games_two_days_ago)
        loop == AnalyzeLoop(games_today, 1, yesterday, two_days_ago,
                            [results |-> <<>>, calls |-> 0])
    IN  IF games_today = <<>>
        THEN [yesterday |-> {}, two_days_ago |-> {}, results |-> <<>>,
              calls |-> 0, printed |-> <<"no_games_found">>, rows |-> <<>>]
        ELSE IF loop.results = <<>>
        THEN [yesterday |-> yesterday, two_days_ago |-> two_days_ago,
              results |-> loop.results, calls |-> loop.calls,
              printed |-> <<"no_games_analyzed">>, rows |-> <<>>]
        ELSE [yesterday |-> yesterday, two_days_ago |-> two_days_ago,
              results |-> loop.results, calls |-> loop.calls,
              printed |-> <<"key", "table">>, rows |-> loop.results]

\* analyze_schedule_command, lines 166-215: the report
AnalyzeReport ==
    /\ pc = "report"
    /\ LET r == Report(games_by_date, target_date)
       IN  /\ teams_playing_yesterday' = r.yesterday
           /\ teams_playing_two_days_ago' = r.two_days_ago
           /\ simplified_results' = r.results
           /\ status_calls' = status_calls + r.calls
           /\ console' = console \o r.printed
           /\ table_rows' = r.rows
    /\ exit_code' = 0
    /\ pc' = "done"
    /\ UNCHANGED <<env_key, BALLDONTLIE_API_KEY, date_str, target_date,
                   dates_to_fetch, api_requests, games_data, games_by_date,
                   team_abbr, status, games, teams>>

Next ==
    \/ Main
    \/ AnalyzeCheckKey
    \/ AnalyzeParseDate
    \/ AnalyzeFetch
    \/ AnalyzeReport

Spec == Init /\ [][Next]_vars

-----------------------------------------------------------------------------
(* _get_fatigue_status on arbitrary inputs *)

\* the teams of test_fatigue_logic's four cases (lines 228-234)
TestTeams == {"LAL", "SAC", "DEN", "NYK"}

InitFatigue ==
    /\ pc = "call_fatigue"
    /\ team_abbr \in TestTeams
    /\ teams_playing_yesterday \in SUBSET TestTeams
    /\ teams_playing_two_days_ago \in SUBSET TestTeams
    /\ status = ""
    /\ games = <<>>
    /\ teams = {}
    /\ RunIdle

CallFatigue ==
    /\ pc = "call_fatigue"
    /\ status' = _get_fatigue_status(team_abbr, teams_playing_yesterday,
                                     teams_playing_two_days_ago)
    /\ pc' = "fatigue_returned"
    /\ UNCHANGED <<team_abbr, teams_playing_yesterday,
                   teams_playing_two_days_ago, games, teams>>
    /\ UNCHANGED runVars

NextFatigue == CallFatigue

SpecFatigue == InitFatigue /\ [][NextFatigue]_vars

-----------------------------------------------------------------------------
(* get_teams_playing_on_date on arbitrary inputs *)

GameDicts == [home_team : Teams, visitor_team : Teams]

InitTeams ==
    /\ pc = "call_teams"
    /\ games \in SeqsUpTo(GameDicts, MaxGames)
    /\ teams = {}
    /\ team_abbr = ""
    /\ status = ""
    /\ teams_playing_yesterday = {}
    /\ teams_playing_two_days_ago = {}
    /\ RunIdle

CallTeams ==
    /\ pc = "call_teams"
    /\ teams' = get_teams_playing_on_date(games)
    /\ pc' = "teams_returned"
    /\ UNCHANGED <<team_abbr, status, games, teams_playing_yesterday,
                   teams_playing_two_days_ago>>
    /\ UNCHANGED runVars

NextTeams == CallTeams

SpecTeams == InitTeams /\ [][NextTeams]_vars

-----------------------------------------------------------------------------
(* Properties of _get_fatigue_status, checked under SpecFatigue *)

FatigueReturned == pc = "fatigue_returned"

\* C1: the status is "3/3" if and only if the team played yesterday and
\* two days ago.
C1_ThreeInThreeIff ==
    FatigueReturned =>
        (status = "3/3" <=> (/\ team_abbr \in teams_playing_yesterday
                             /\ team_abbr \in teams_playing_two_days_ago))

C1_Witness ==
    /\ FatigueReturned
    /\ team_abbr \in teams_playing_yesterday \cap teams_playing_two_days_ago
    /\ status = "3/3"

\* C2: a team that did not play yesterday is Rested, whatever the set of
\* two days ago holds.
C2_RestedWhenNotYesterday ==
    (FatigueReturned /\ team_abbr \notin teams_playing_yesterday)
        => status = "Rested"

C2_Witness ==
    /\ FatigueReturned
    /\ team_abbr \notin teams_playing_yesterday
    /\ team_abbr \in teams_playing_two_days_ago
    /\ status = "Rested"

\* C3: a team that played yesterday and not two days ago is B2B.
C3_B2BWhenOnlyYesterday ==
    (/\ FatigueReturned
     /\ team_abbr \in teams_playing_yesterday
     /\ team_abbr \notin teams_playing_two_days_ago)
        => status = "B2B"

C3_Witness ==
    /\ FatigueReturned
    /\ team_abbr \in teams_playing_yesterday
    /\ team_abbr \notin teams_playing_two_days_ago
    /\ teams_playing_two_days_ago # {}
    /\ status = "B2B"

-----------------------------------------------------------------------------
(* Properties of get_teams_playing_on_date, checked under SpecTeams *)

IndexPermutations(n) ==
    {p \in [1..n -> 1..n] : \A i, j \in 1..n : p[i] = p[j] => i = j}

Permuted(gs, p) == [i \in 1..Len(gs) |-> gs[p[i]]]

\* C8: the result is the union of the home and visitor identifiers of the
\* games, the empty list gives the empty set, and every permutation of the
\* list gives the same set.
C8_TeamsIsUnion ==
    pc = "teams_returned" =>
        /\ teams = {g.home_team : g \in Range(games)}
                   \cup {g.visitor_team : g \in Range(games)}
        /\ (games = <<>> => teams = {})
        /\ \A p \in IndexPermutations(Len(games)) :
              get_teams_playing_on_date(Permuted(games, p)) = teams

C8_Witness ==
    /\ pc = "teams_returned"
    /\ Len(games) = 3
    /\ games[1] # games[2]
    /\ games[1].visitor_team \notin {g.home_team : g \in Range(games)}
    /\ Cardinality(teams) = 3

-----------------------------------------------------------------------------
(* Properties of fetch_games_for_dates, checked under Spec *)

\* fetch_games_for_dates has returned (or an exception has left it)
FetchReturned == pc \in {"report", "done", "crashed"}

\* the provider call raised, or a record of its response cannot be processed
FetchFailed ==
    \/ games_data.raised
    \/ \E i \in DOMAIN games_data.data : games_data.data[i].date \in BadStamps

RequestedDates == Range(dates_to_fetch)

\* what a response holds for date d: the complete records of that calendar
\* date, in the provider's order
ExpectedGames(d) ==
    LET Keep(r) == r.date[1] = d /\ r.home_team # "" /\ r.visitor_team # ""
        kept == SelectSeq(games_data.data, Keep)
    IN  [i \in 1..Len(kept) |-> [home_team |-> kept[i].home_team,
                                 visitor_team |-> kept[i].visitor_team]]

\* C4 as stated: after a failure every requested date is present and maps
\* to an empty sequence.
C4_AsStated ==
    (FetchReturned /\ FetchFailed) =>
        /\ pc # "crashed"
        /\ DOMAIN games_by_date = RequestedDates
        /\ \A d \in DOMAIN games_by_date : games_by_date[d] = <<>>

\* C4 (amended): after a failure of the call or of the processing of its
\* response the failure is not propagated and the mapping returned is empty:
\* it has no key at all, so that a lookup with default [] gives [] for
\* every requested date.
C4_FailureGivesEmptyDict ==
    (FetchReturned /\ FetchFailed) =>
        /\ pc # "crashed"
        /\ DOMAIN games_by_date = {}
        /\ \A d \in RequestedDates : Get(games_by_date, d, <<>>) = <<>>

C4_Witness ==
    /\ pc = "report"
    /\ ~games_data.raised
    /\ Len(games_data.data) = 2
    /\ games_data.data[1].date = <<dates_to_fetch[1], "">>
    /\ games_data.data[1].home_team = "BOS"
    /\ games_data.data[1].visitor_team = "MIA"
    /\ games_data.data[2].date \in BadStamps
    /\ DOMAIN games_by_date = {}

\* C5 as stated: for every provider response the key set of the result is
\* the requested date set.
C5_AsStated ==
    (FetchReturned /\ ~games_data.raised) =>
        DOMAIN games_by_date = RequestedDates

\* C5 (amended): for every provider response that is processed without a
\* failure (also one with zero records) the key set of the result is
\* exactly the requested date set.
C5_KeysAreRequestedDates ==
    (FetchReturned /\ ~FetchFailed) =>
        DOMAIN games_by_date = RequestedDates

C5_Witness ==
    /\ pc = "report"
    /\ ~FetchFailed
    /\ Len(games_data.data) = 2
    /\ \A i \in 1..2 :
          /\ games_data.data[i].date[1] \notin RequestedDates
          /\ games_data.data[i].home_team = "DEN"
    /\ Cardinality(DOMAIN games_by_date) = 3

\* C6 as stated: for every provider response each requested date holds the
\* provider-order subsequence of the complete records of that date.
C6_AsStated ==
    (FetchReturned /\ ~games_data.raised) =>
        \A d \in RequestedDates :
            /\ d \in DOMAIN games_by_date
            /\ games_by_date[d] = ExpectedGames(d)

\* C6 (amended): for every provider response that is processed without a
\* failure, each requested date holds exactly the provider-order
\* subsequence of the records of that date that carry both identifiers;
\* a record of another date or lacking an identifier is dropped alone.
C6_GroupedInProviderOrder ==
    (FetchReturned /\ ~FetchFailed) =>
        \A d \in RequestedDates :
            /\ d \in DOMAIN games_by_date
            /\ games_by_date[d] = ExpectedGames(d)

C6_Witness ==
    /\ pc = "report"
    /\ ~FetchFailed
    /\ Len(games_data.data) = 3
    /\ games_data.data[1].date = <<dates_to_fetch[1], "T19:30:00Z">>
    /\ games_data.data[2].date = <<dates_to_fetch[1], "">>
    /\ games_data.data[2].home_team = ""
    /\ games_data.data[3].date = <<dates_to_fetch[1], "">>
    /\ games_by_date[dates_to_fetch[1]] =
          <<[home_team |-> "DEN", visitor_team |-> "BOS"],
            [home_team |-> "BOS", visitor_team |-> "MIA"]>>

-----------------------------------------------------------------------------
(* Properties of the analyze command, checked under Spec *)

\* the run has ended, one way or another
Terminated == pc \in {"done", "exit", "crashed"}

\* C7: with no games for the target date in the snapshot, for lack of
\* games or after a failed fetch, the command prints the 'no games found'
\* report, never calls the classifier, prints no matchup and ends normally.
C7_NoGamesShortCircuit ==
    (pc = "done" /\ Get(games_by_date, Calendar[target_date], <<>>) = <<>>) =>
        /\ console = <<"rule", "no_games_found">>
        /\ status_calls = 0
        /\ simplified_results = <<>>
        /\ table_rows = <<>>
        /\ exit_code = 0

C7_Witness ==
    /\ pc = "done"
    /\ FetchFailed
    /\ ~games_data.raised
    /\ \E i \in DOMAIN games_data.data :
          /\ games_data.data[i].date[1] = dates_to_fetch[1]
          /\ games_data.data[i].home_team # ""
          /\ games_data.data[i].visitor_team # ""
    /\ console = <<"rule", "no_games_found">>

\* the credential reaches the command
CredentialPresent == env_key \notin {PyNone, ""}

\* the window of each date string strptime accepts
ExpectedWindow ==
    CASE date_str \in {"2024-12-01", "2024-12-1"} ->
            <<"2024-12-01", "2024-11-30", "2024-11-29">>
      [] date_str = "2024-12-02" ->
            <<"2024-12-02", "2024-12-01", "2024-11-30">>
      [] OTHER -> <<>>

DateValid == ExpectedWindow # <<>>

\* C9: the provider is queried at most once in a run: exactly once, for
\* target, target-1 and target-2 together, when the credential is present
\* and the date is valid; never when the credential is missing or the date
\* malformed, in which case the run exits with status 1.
C9_AtMostOneBatchedQuery ==
    /\ Len(api_requests) <= 1
    /\ (FetchReturned => CredentialPresent /\ DateValid)
    /\ ((CredentialPresent /\ DateValid /\ Terminated) =>
            api_requests = <<ExpectedWindow>>)
    /\ (~(CredentialPresent /\ DateValid) =>
            /\ api_requests = <<>>
            /\ (Terminated => pc = "exit" /\ exit_code = 1))

C9_Witness ==
    /\ pc = "done"
    /\ date_str = "2024-12-1"
    /\ api_requests = <<<<"2024-12-01", "2024-11-30", "2024-11-29">>>>

\* the teams of the games the snapshot holds for a date
TeamsOn(d) ==
    LET gs == Get(games_by_date, d, <<>>)
    IN  {gs[i].home_team : i \in DOMAIN gs} \cup {gs[i].visitor_team : i \in DOMAIN gs}

\* the marker of the status of team t given the two prior days
ExpectedMarker(t) ==
    LET Y == TeamsOn(dates_to_fetch[2])
        D == TeamsOn(dates_to_fetch[3])
    IN  IF t \in Y /\ t \in D THEN "red"
        ELSE IF t \in Y THEN "yellow"
        ELSE "green"

\* C10: with n >= 1 games on the target date the command builds n lines,
\* one per game in snapshot order, each with the visitor, the home team and
\* their statuses against the teams of target-1 and target-2; the
\* classifier is called 2n times and the 'no games could be analyzed'
\* branch is not taken.
C10_OneLinePerGame ==
    LET games_today == Get(games_by_date, Calendar[target_date], <<>>)
        n == Len(games_today)
    IN  (pc = "done" /\ n >= 1) =>
            /\ Len(simplified_results) = n
            /\ \A i \in 1..n :
                  simplified_results[i] =
                      <<ExpectedMarker(games_today[i].visitor_team),
                        games_today[i].visitor_team, "at",
                        games_today[i].home_team,
                        ExpectedMarker(games_today[i].home_team)>>
            /\ table_rows = simplified_results
            /\ status_calls = 2 * n
            /\ console = <<"rule", "key", "table">>

C10_Witness ==
    /\ pc = "done"
    /\ Len(simplified_results) = 2
    /\ simplified_results[1] = <<"yellow", "BOS", "at", "DEN", "yellow">>
    /\ simplified_results[2] = <<"green", "MIA", "at", "BOS", "yellow">>
    /\ status_calls = 4

=============================================================================
